---- MODULE Spec2Model ----
(***************************************************************************)
(* ManualScalerTraitReconciler.Reconcile                                   *)
(* (controllers/manualscalertrait_controller.go) as a state machine.       *)
(*                                                                         *)
(* The store holds three kinds of objects: ManualScalerTrait (the scale    *)
(* intent), ContainerizedWorkload and Deployment.  One Reconcile           *)
(* invocation per trait identity is in flight at a time; it advances one   *)
(* client call at a time (Get, Get, Get..., Patch, Status().Update), and   *)
(* other actors may write the store between two calls.                     *)
(***************************************************************************)
EXTENDS Integers, Sequences, FiniteSets, TLC

\* ------------------------------------------------------------- bounds
MaxResources == 2   \* longest workload.Status.Resources considered
MaxRuns      == 2   \* Reconcile invocations delivered in one behaviour
MaxDisturb   == 2   \* failed client calls plus writes by other actors

\* ------------------------------------------------------- name spaces
Traits    == {"t1", "t2"}
WlNames   == {"w1"}
DepNames  == {"d1", "d2"}
UIDs      == {"u1", "u2"}
NoUID     == "nil"
Images    == {"img1", "img2"}
ReplicaCounts == {1, 3}
Fields    == {"replicas", "ownerReferences", "image"}

\* ------------------------------------------------- program constants
errLocateWorkload   == "cannot find workload"
errLocateDeployment == "cannot find deployment"
\* The next five are declared elsewhere in package controllers.
errUpdateDeployment == "CannotScaleDeployment"
errScaleDeployment  == "CannotScaleDeployment"
errUpdateStatus     == "cannot update status"
KindDeployment      == "Deployment"
oamReconcileWait    == 30

\* ------------------------------------------------------------ errors
\* An error is the chain of its messages, outermost first; nil is empty.
Nil          == <<>>
ErrNotFound  == <<"NotFound">>
ErrConflict  == <<"Conflict">>
ErrInternal  == <<"InternalError">>

\* errors.Wrap: nil stays nil.
Wrap(err, msg) == IF err = Nil THEN Nil ELSE <<msg>> \o err

\* client.IgnoreNotFound
IgnoreNotFound_dropped(err) == err
IgnoreNotFound(err) == IF err = ErrNotFound THEN Nil ELSE err

\* ------------------------------------------------------- conditions
\* cpv1alpha1.ReconcileError(err) / ReconcileSuccess() at time `at`.
ReconcileError(err, at) ==
    [type |-> "Synced", status |-> "False", reason |-> "ReconcileError",
     message |-> err, lastTransitionTime |-> at]

ReconcileSuccess(at) ==
    [type |-> "Synced", status |-> "True", reason |-> "ReconcileSuccess",
     message |-> Nil, lastTransitionTime |-> at]

\* Condition.Equal ignores lastTransitionTime.
CondEqual(a, b) ==
    /\ a.type = b.type
    /\ a.status = b.status
    /\ a.reason = b.reason
    /\ a.message = b.message

\* ConditionedStatus.SetConditions with one condition.
SetConditions(conds, c) ==
    IF \E i \in 1..Len(conds) : conds[i].type = c.type
    THEN [i \in 1..Len(conds) |->
            IF conds[i].type = c.type /\ ~CondEqual(conds[i], c)
            THEN c ELSE conds[i]]
    ELSE Append(conds, c)

\* ------------------------------------------------- owner references
ControllerRef(t) == [kind |-> "ManualScalerTrait", name |-> t, controller |-> TRUE]

\* References another actor may put on a Deployment.
ForeignRefs == {[kind |-> "HPA", name |-> "h1", controller |-> c] : c \in BOOLEAN}

referSameObject(a, b) == a.kind = b.kind /\ a.name = b.name

\* ctrl.SetControllerReference(owner t, object with references refs):
\* fails when another controller already owns the object, otherwise the
\* reference is replaced in place or appended.
SetControllerReference_append(t, refs) ==
    IF \E i \in 1..Len(refs) : ~referSameObject(ControllerRef(t), refs[i]) /\ refs[i].controller
    THEN [err |-> <<"AlreadyOwned">>, refs |-> refs]
    ELSE [err |-> Nil, refs |-> Append(refs, ControllerRef(t))]

SetControllerReference_unchecked(t, refs) ==
    LET ref  == ControllerRef(t)
        same == {i \in 1..Len(refs) : referSameObject(ref, refs[i])}
    IN  [err |-> Nil,
         refs |-> IF \E i \in 1..Len(refs) : refs[i].controller THEN refs
                  ELSE Append(refs, ref)]

SetControllerReference(t, refs) ==
    LET ref  == ControllerRef(t)
        same == {i \in 1..Len(refs) : referSameObject(ref, refs[i])}
        fi   == IF same = {} THEN 0 ELSE CHOOSE i \in same : \A j \in same : j <= i
    IN  IF \E i \in 1..Len(refs) : ~referSameObject(ref, refs[i]) /\ refs[i].controller
        THEN [err |-> <<"AlreadyOwned">>, refs |-> refs]
        ELSE [err |-> Nil,
              refs |-> IF fi = 0 THEN Append(refs, ref)
                       ELSE [refs EXCEPT ![fi] = ref]]

\* --------------------------------------------------------- merge patch
\* client.MergeFrom(base).Data(modified): the fields that differ.
MergePatch_full(base, modified) == modified

MergePatch(base, modified) ==
    [f \in {g \in Fields : base[g] # modified[g]} |-> modified[f]]

\* The store applying a merge patch to its current object.
ApplyPatch(cur, patch) ==
    [f \in Fields |-> IF f \in DOMAIN patch THEN patch[f] ELSE cur[f]]

\* ------------------------------------------------------------- state
VARIABLES
    traits,       \* store: ManualScalerTrait objects by name
    workloads,    \* store: ContainerizedWorkload objects by name
    deployments,  \* store: Deployment objects by name
    pc,           \* per trait identity: position of its Reconcile invocation
    manualScaler, \* per invocation: the fetched trait (conditions set in memory)
    workload,     \* per invocation: the fetched workload
    scaleDeploy,  \* per invocation: the fetched deployment
    target,       \* per invocation: name of the fetched deployment
    idx,          \* per invocation: next index of workload.Status.Resources
    pending,      \* per invocation: the path taken and the result to return
    calls,        \* per invocation: the client calls made so far, with outcomes
    ret,          \* per trait identity: what its last invocation returned
    quiet,        \* per trait identity: nobody else wrote the store since it returned
    queue,        \* trigger source: the identities waiting to be reconciled
    runs,         \* invocations delivered so far
    disturb       \* failed client calls and writes by other actors so far

vars == <<traits, workloads, deployments, pc, manualScaler, workload,
          scaleDeploy, target, idx, pending, calls, ret, quiet, queue, runs,
          disturb>>

NoObj == [none |-> TRUE]

\* metav1.Now() inside an invocation: every delivery is later than the last.
now == runs

locals == <<manualScaler, workload, scaleDeploy, target, idx, pending>>

\* ---------------------------------------------------------- initially
InitRest ==
    /\ pc = [t \in Traits |-> "idle"]
    /\ manualScaler = [t \in Traits |-> NoObj]
    /\ workload = [t \in Traits |-> NoObj]
    /\ scaleDeploy = [t \in Traits |-> NoObj]
    /\ target = [t \in Traits |-> ""]
    /\ idx = [t \in Traits |-> 0]
    /\ pending = [t \in Traits |-> NoObj]
    /\ calls = [t \in Traits |-> <<>>]
    /\ ret = [t \in Traits |-> NoObj]
    /\ quiet = [t \in Traits |-> FALSE]
    /\ runs = 0
    /\ disturb = 0

\* The lists of at most n distinct elements of S.
SeqsUpTo(S, n) ==
    {q \in UNION {[1..k -> S] : k \in 0..n} :
        \A i, j \in 1..Len(q) : q[i] = q[j] => i = j}

ResourceEntries ==
    {[kind |-> KindDeployment, name |-> d] : d \in DepNames}
        \cup {[kind |-> "Service", name |-> "d1"]}

NewTrait(n, w, u) ==
    [replicaCount |-> n, workloadRef |-> [name |-> w, uid |-> u],
     conditions |-> <<>>, resourceVersion |-> 1]

NewDeployment(refs) == [replicas |-> 1, ownerReferences |-> refs, image |-> "img1"]

\* The workload references a trait may carry: the workload's own UID, another
\* UID, no UID, and the name of a workload that does not exist.
WorkloadRefs ==
    {[name |-> "w1", uid |-> u] : u \in UIDs \cup {NoUID}}
        \cup {[name |-> "w0", uid |-> "u1"]}

WrongReference(ref) == ref.name \notin WlNames \/ ref.uid # "u1"

\* The store holds the traits ts; everything is idle and every trait is
\* queued by the initial listing.
InitWith(ts) ==
    /\ \E ref \in WorkloadRefs :
          traits = [t \in ts |->
                      IF t = "t1" THEN NewTrait(3, ref.name, ref.uid)
                      ELSE NewTrait(1, "w1", "u1")]
    /\ \E rs \in SeqsUpTo(ResourceEntries, MaxResources), ds \in {{"d1"}, DepNames} :
          \* A trait whose reference is rejected never reads the resources:
          \* one workload and one store stand for all of them.
          /\ "t1" \in ts /\ WrongReference(traits["t1"].workloadRef)
                => rs = <<[kind |-> KindDeployment, name |-> "d1"]>> /\ ds = {"d1"}
          /\ workloads = [w \in WlNames |-> [uid |-> "u1", resources |-> rs]]
          /\ deployments = [d \in ds |-> NewDeployment(<<>>)]
    /\ queue = ts
    /\ InitRest

Init == InitWith({"t1"})

\* ---------------------------------------------------- trigger source
\* SetupWithManager: For(ManualScalerTrait) queues a trait whenever it is
\* created, updated or deleted; Owns(Deployment) queues the controller owner
\* of a deployment whenever the deployment changes.
ControllersOf(d, deps) ==
    IF d \notin DOMAIN deps THEN {}
    ELSE {deps[d].ownerReferences[i].name :
            i \in {j \in 1..Len(deps[d].ownerReferences) :
                     /\ deps[d].ownerReferences[j].kind = "ManualScalerTrait"
                     /\ deps[d].ownerReferences[j].controller}}

Changed(old, new, k) ==
    \/ (k \in DOMAIN old) # (k \in DOMAIN new)
    \/ k \in DOMAIN old /\ k \in DOMAIN new /\ old[k] # new[k]

\* The identities queued by the step being taken.  Read after traits' and
\* deployments' are set.
Events ==
    {t \in Traits : Changed(traits, traits', t)}
        \cup UNION {ControllersOf(d, deployments) \cup ControllersOf(d, deployments') :
                      d \in {e \in DepNames : Changed(deployments, deployments', e)}}

\* A returned error or a RequeueAfter puts the identity back on the queue.
Requeued(t, result, err) ==
    IF err # <<>> \/ result.RequeueAfter > 0 THEN {t} ELSE {}

\* ------------------------------------------------------ client calls
\* Whether a client call may fail for an operational reason now.
Failures == IF disturb < MaxDisturb THEN BOOLEAN ELSE {FALSE}

Call(op, obj, err) == [op |-> op, obj |-> obj, err |-> err]

\* ctrl.Result{} and ctrl.Result{RequeueAfter: oamReconcileWait}
Done    == [RequeueAfter |-> 0]
Requeue_none == [RequeueAfter |-> 0]
Requeue == [RequeueAfter |-> oamReconcileWait]

StoreWritten == traits' # traits \/ deployments' # deployments

\* Reconcile returns (result, err) on the named path; the invocation's
\* locals are dropped.  Read after traits' and deployments' are set.
Return(t, path, result, err, cs, conds) ==
    /\ ret' = [ret EXCEPT ![t] =
          [path |-> path, result |-> result, err |-> err, calls |-> cs,
           conds |-> conds,
           spec |-> IF manualScaler[t] = NoObj THEN NoObj
                    ELSE [replicaCount |-> manualScaler[t].replicaCount,
                          workloadRef |-> manualScaler[t].workloadRef],
           target |-> target[t],
           after |-> [deps |-> deployments',
                      conds |-> IF t \in DOMAIN traits'
                                THEN traits'[t].conditions ELSE <<>>],
           quiet |-> quiet[t],
           prior |-> IF ret[t] = NoObj THEN NoObj
                     ELSE [path |-> ret[t].path, calls |-> ret[t].calls,
                           after |-> ret[t].after]]]
    /\ quiet' = [u \in Traits |-> IF u = t THEN TRUE ELSE quiet[u] /\ ~StoreWritten]
    /\ queue' = (IF pc[t] = "idle" THEN queue \ {t} ELSE queue)
                    \cup Events \cup Requeued(t, result, err)
    /\ pc' = [pc EXCEPT ![t] = "idle"]
    /\ manualScaler' = [manualScaler EXCEPT ![t] = NoObj]
    /\ workload' = [workload EXCEPT ![t] = NoObj]
    /\ scaleDeploy' = [scaleDeploy EXCEPT ![t] = NoObj]
    /\ target' = [target EXCEPT ![t] = ""]
    /\ idx' = [idx EXCEPT ![t] = 0]
    /\ pending' = [pending EXCEPT ![t] = NoObj]
    /\ calls' = [calls EXCEPT ![t] = <<>>]

\* The invocation sets a condition in memory and goes on to write status.
ToStatus(t, cond, path, result) ==
    /\ manualScaler' = [manualScaler EXCEPT ![t].conditions = SetConditions(@, cond)]
    /\ pending' = [pending EXCEPT ![t] =
          [path |-> path, result |-> result,
           \* the stored deployment as the patch found it, when one was sent
           before |-> IF path = "success" THEN deployments[target[t]] ELSE NoObj]]
    /\ pc' = [pc EXCEPT ![t] = "updateStatus"]

\* What Reconcile returns when the first r.Get fails (line 59).
FetchFailed(err) == [result |-> Done, err |-> IgnoreNotFound(err)]

\* Lines 52-60: the trigger source delivers t; r.Get of the trait.
GetTrait(t) ==
    /\ pc[t] = "idle"
    /\ t \in queue
    /\ runs < MaxRuns
    /\ runs' = runs + 1
    /\ \E fail \in Failures :
        LET err == IF fail THEN ErrInternal
                   ELSE IF t \notin DOMAIN traits THEN ErrNotFound ELSE Nil
            cs  == <<Call("Get", t, err)>>
        IN  /\ disturb' = IF fail THEN disturb + 1 ELSE disturb
            /\ UNCHANGED <<traits, workloads, deployments>>
            /\ IF err # Nil
               THEN /\ Return(t, IF err = ErrNotFound THEN "notFound" ELSE "getError",
                              FetchFailed(err).result, FetchFailed(err).err, cs, <<>>)
               ELSE /\ manualScaler' = [manualScaler EXCEPT ![t] = traits[t]]
                    /\ pc' = [pc EXCEPT ![t] = "getWorkload"]
                    /\ calls' = [calls EXCEPT ![t] = cs]
                    /\ queue' = queue \ {t}
                    /\ UNCHANGED <<workload, scaleDeploy, target, idx, pending,
                                   ret, quiet>>

\* Line 75: the reference carries no UID, or not the workload's.
WrongWorkload_unsetPasses(ref, w) == ref.uid # NoUID /\ w.uid # ref.uid
WrongWorkload(ref, w) == ref.uid = NoUID \/ w.uid # ref.uid

\* Lines 64-80: r.Get of the workload, then the UID check.
GetWorkload(t) ==
    /\ pc[t] = "getWorkload"
    /\ \E fail \in Failures :
        LET wn  == manualScaler[t].workloadRef.name
            err == IF fail THEN ErrInternal
                   ELSE IF wn \notin DOMAIN workloads THEN ErrNotFound ELSE Nil
        IN  /\ disturb' = IF fail THEN disturb + 1 ELSE disturb
            /\ calls' = [calls EXCEPT ![t] = Append(@, Call("Get", wn, err))]
            /\ UNCHANGED <<traits, workloads, deployments, runs, ret, quiet,
                           queue, scaleDeploy, target>>
            /\ IF err # Nil
               THEN /\ ToStatus(t, ReconcileError(Wrap(err, errLocateWorkload), now),
                                "workloadMissing", Requeue)
                    /\ UNCHANGED <<workload, idx>>
               ELSE IF WrongWorkload(manualScaler[t].workloadRef, workloads[wn])
               THEN /\ ToStatus(t, ReconcileError(<<errLocateWorkload>>, now),
                                "wrongWorkload", Requeue)
                    /\ UNCHANGED <<workload, idx>>
               ELSE /\ workload' = [workload EXCEPT ![t] = workloads[wn]]
                    /\ idx' = [idx EXCEPT ![t] = 1]
                    /\ pc' = [pc EXCEPT ![t] = "scan"]
                    /\ UNCHANGED <<manualScaler, pending>>

\* Lines 86-87: the entries of res at or after index i that the loop fetches.
Candidates_all(res, i) == i..Len(res)
Candidates(res, i) == {j \in i..Len(res) : res[j].kind = KindDeployment}

Min(S) == CHOOSE x \in S : \A y \in S : x <= y

\* Line 92: after a failed fetch of entry i the loop continues with the next.
Continue_break(res, i) == Len(res) + 1
Continue(res, i) == i + 1

\* Lines 84-97: the loop reaches its next Deployment entry and fetches it.
GetDeployment(t) ==
    /\ pc[t] = "scan"
    /\ Candidates(workload[t].resources, idx[t]) # {}
    /\ \E fail \in Failures :
        LET i   == Min(Candidates(workload[t].resources, idx[t]))
            dn  == workload[t].resources[i].name
            err == IF fail THEN ErrInternal
                   ELSE IF dn \notin DOMAIN deployments THEN ErrNotFound ELSE Nil
        IN  /\ disturb' = IF fail THEN disturb + 1 ELSE disturb
            /\ calls' = [calls EXCEPT ![t] = Append(@, Call("Get", dn, err))]
            /\ idx' = [idx EXCEPT ![t] =
                  IF err # Nil THEN Continue(workload[t].resources, i) ELSE i + 1]
            /\ UNCHANGED <<traits, workloads, deployments, runs, ret, quiet,
                           queue, workload, pending>>
            /\ IF err # Nil
               THEN /\ manualScaler' = [manualScaler EXCEPT ![t].conditions =
                          SetConditions(@, ReconcileError(Wrap(err, errLocateDeployment), now))]
                    /\ UNCHANGED <<pc, scaleDeploy, target>>
               ELSE /\ scaleDeploy' = [scaleDeploy EXCEPT ![t] = deployments[dn]]
                    /\ target' = [target EXCEPT ![t] = dn]
                    /\ pc' = [pc EXCEPT ![t] = "patch"]
                    /\ UNCHANGED manualScaler

NoDeployment_silent(t) ==
    /\ pc[t] = "scan"
    /\ Candidates(workload[t].resources, idx[t]) = {}
    /\ UNCHANGED <<traits, workloads, deployments, runs, disturb>>
    /\ Return(t, "noDeployment", Requeue, Nil, calls[t],
              SetConditions(manualScaler[t].conditions,
                            ReconcileError(<<errLocateDeployment>>, now)))

\* Lines 98-103: the loop ended with found = false.
NoDeployment(t) ==
    /\ pc[t] = "scan"
    /\ Candidates(workload[t].resources, idx[t]) = {}
    /\ ToStatus(t, ReconcileError(<<errLocateDeployment>>, now), "noDeployment", Requeue)
    /\ UNCHANGED <<traits, workloads, deployments, runs, disturb, ret, quiet,
                   queue, workload, scaleDeploy, target, idx, calls>>

\* Lines 106-108: the object the invocation sends as its desired state: the
\* copy of the fetched deployment with the owner references set.
Modified(ms, sd, refs) == [sd EXCEPT !.ownerReferences = refs]

\* Line 115: what r.Patch(ctx, sd, client.MergeFrom(&scaleDeploy)) makes of the
\* stored object cur.
Patched_update(cur, base, sd) == sd
Patched(cur, base, sd) == ApplyPatch(cur, MergePatch(base, sd))

\* Lines 106-122: SetControllerReference on the copy, then r.Patch.
Patch(t) ==
    /\ pc[t] = "patch"
    /\ LET r == SetControllerReference(t, scaleDeploy[t].ownerReferences)
       IN  IF r.err # Nil
           THEN /\ ToStatus(t, ReconcileError(Wrap(r.err, errUpdateDeployment), now),
                            "ownerFail", Requeue)
                /\ UNCHANGED <<traits, workloads, deployments, runs, disturb,
                               ret, quiet, queue, workload, scaleDeploy, target, idx,
                               calls>>
           ELSE \E fail \in Failures :
                LET sd  == Modified(manualScaler[t], scaleDeploy[t], r.refs)
                    err == IF fail THEN ErrInternal
                           ELSE IF target[t] \notin DOMAIN deployments
                                THEN ErrNotFound ELSE Nil
                IN  /\ disturb' = IF fail THEN disturb + 1 ELSE disturb
                    /\ calls' = [calls EXCEPT ![t] = Append(@, Call("Patch", target[t], err))]
                    /\ UNCHANGED <<traits, workloads, runs, ret,
                                   workload, scaleDeploy, target, idx>>
                    /\ IF err # Nil
                       THEN /\ ToStatus(t, ReconcileError(Wrap(err, errScaleDeployment), now),
                                        "patchFail", Requeue)
                            /\ UNCHANGED <<deployments, quiet, queue>>
                       ELSE /\ deployments' = [deployments EXCEPT ![target[t]] =
                                                 Patched(@, scaleDeploy[t], sd)]
                            /\ quiet' = [u \in Traits |->
                                  IF u = t THEN quiet[u] ELSE quiet[u] /\ ~StoreWritten]
                            /\ queue' = queue \cup Events
                            /\ ToStatus(t, ReconcileSuccess(now), "success", Done)

\* r.Status().Update(ctx, &manualScaler) as the store decides it.
StatusUpdateErr(t, ms, fail) ==
    IF fail THEN ErrInternal
    ELSE IF t \notin DOMAIN traits THEN ErrNotFound
    ELSE IF traits[t].resourceVersion # ms.resourceVersion THEN ErrConflict
    ELSE Nil

\* The error Reconcile returns beside its result (lines 69, 78, 101, 111, 118, 123).
Returned_dropped(err) == Nil
Returned(err) == Wrap(err, errUpdateStatus)

\* The status write and the return that every path but the first ends with.
UpdateStatus(t) ==
    /\ pc[t] = "updateStatus"
    /\ \E fail \in Failures :
        LET ms  == manualScaler[t]
            err == StatusUpdateErr(t, ms, fail)
            cs  == Append(calls[t], Call("UpdateStatus", t, err))
        IN  /\ disturb' = IF fail THEN disturb + 1 ELSE disturb
            /\ traits' = IF err # Nil \/ traits[t].conditions = ms.conditions
                         THEN traits
                         ELSE [traits EXCEPT ![t].conditions = ms.conditions,
                                             ![t].resourceVersion = @ + 1]
            /\ UNCHANGED <<workloads, deployments, runs>>
            /\ Return(t, pending[t].path, pending[t].result, Returned(err), cs,
                      ms.conditions)

\* ------------------------------------------------------ other actors
\* A write by another actor: counted, seen by the trigger source.
External ==
    /\ disturb < MaxDisturb
    /\ disturb' = disturb + 1
    /\ quiet' = [u \in Traits |-> FALSE]
    /\ queue' = queue \cup Events
    /\ UNCHANGED <<workloads, pc, locals, calls, ret, runs>>

\* Another actor changes a field the reconciler does not manage.
ExtSetImage(d) ==
    /\ d \in DOMAIN deployments
    /\ \E img \in Images \ {deployments[d].image} :
          deployments' = [deployments EXCEPT ![d].image = img]
    /\ UNCHANGED traits
    /\ External

\* Another actor adds an owner reference of its own.
ExtAddOwner(d) ==
    /\ d \in DOMAIN deployments
    /\ \E ref \in ForeignRefs :
          /\ \A i \in 1..Len(deployments[d].ownerReferences) :
                /\ ~referSameObject(ref, deployments[d].ownerReferences[i])
                /\ ~(ref.controller /\ deployments[d].ownerReferences[i].controller)
          /\ deployments' = [deployments EXCEPT ![d].ownerReferences = Append(@, ref)]
    /\ UNCHANGED traits
    /\ External

\* The user deletes the trait.
ExtDeleteTrait(t) ==
    /\ t \in DOMAIN traits
    /\ traits' = [u \in DOMAIN traits \ {t} |-> traits[u]]
    /\ UNCHANGED deployments
    /\ External

\* The user changes the declared replica count.
ExtUpdateTrait(t) ==
    /\ t \in DOMAIN traits
    /\ \E n \in ReplicaCounts \ {traits[t].replicaCount} :
          traits' = [traits EXCEPT ![t].replicaCount = n, ![t].resourceVersion = @ + 1]
    /\ UNCHANGED deployments
    /\ External

Next ==
    \/ \E t \in Traits : GetTrait(t)
    \/ \E t \in Traits : GetWorkload(t)
    \/ \E t \in Traits : GetDeployment(t)
    \/ \E t \in Traits : NoDeployment(t)
    \/ \E t \in Traits : Patch(t)
    \/ \E t \in Traits : UpdateStatus(t)
    \/ \E d \in DepNames : ExtSetImage(d)
    \/ \E d \in DepNames : ExtAddOwner(d)
    \/ \E t \in Traits : ExtDeleteTrait(t)
    \/ \E t \in Traits : ExtUpdateTrait(t)

Spec == Init /\ [][Next]_vars

\* Two traits in the store, both queued, reconciled by concurrent workers.
InitTwo == InitWith(Traits)

SpecTwo == InitTwo /\ [][Next]_vars

\* ===================================================== properties
\* What invocations returned, read off the record of their client calls.
Finished == {t \in Traits : ret[t] # NoObj}

CallsOf(r, op) == {i \in 1..Len(r.calls) : r.calls[i].op = op}

\* The first r.Get found the trait.
TraitFetched(r) == r.calls[1].err = Nil

\* The workload was fetched as well.
WorkloadFetched(r) == TraitFetched(r) /\ Len(r.calls) >= 2 /\ r.calls[2].err = Nil

\* A patch was sent and the store applied it.
PatchApplied(r) == \E i \in CallsOf(r, "Patch") : r.calls[i].err = Nil

\* The status update of the invocation succeeded.
StatusWritten(r) == \E i \in CallsOf(r, "UpdateStatus") : r.calls[i].err = Nil

\* The conditions hold the one Synced condition, in error with this message.
SaysError(conds, msg) ==
    /\ Len(conds) = 1
    /\ conds[1].type = "Synced" /\ conds[1].status = "False"
    /\ conds[1].reason = "ReconcileError" /\ conds[1].message = msg

SaysSuccess(conds) ==
    /\ Len(conds) = 1
    /\ conds[1].type = "Synced" /\ conds[1].status = "True"
    /\ conds[1].reason = "ReconcileSuccess"

\* The reference names an existing workload but carries no UID or another UID.
StaleReference(ref) ==
    /\ ref.name \in DOMAIN workloads
    /\ ref.uid = NoUID \/ ref.uid # workloads[ref.name].uid

\* C1: an invocation that reaches ReportSuccess leaves the target deployment
\* with spec.replicas equal to the trait's replicaCount when it returns.
C1_SuccessSetsReplicas ==
    \A t \in Finished :
        PatchApplied(ret[t]) =>
            ret[t].after.deps[ret[t].target].replicas = ret[t].spec.replicaCount

\* C2: when the trait's workload reference has no UID, or a UID other than the
\* fetched workload's, the invocation never reaches the deployment scan, sends
\* no patch, submits the error condition "cannot find workload" and returns
\* RequeueAfter the fixed delay.
C2_IdentityGuard ==
    /\ \A t \in Traits :
          manualScaler[t] # NoObj /\ StaleReference(manualScaler[t].workloadRef) =>
              /\ pc[t] \notin {"scan", "patch"}
              /\ \A i \in 1..Len(calls[t]) : calls[t][i].op # "Patch"
    /\ \A t \in Finished :
          WorkloadFetched(ret[t]) /\ StaleReference(ret[t].spec.workloadRef) =>
              /\ CallsOf(ret[t], "Patch") = {}
              /\ CallsOf(ret[t], "Get") = {1, 2}
              /\ SaysError(ret[t].conds, <<errLocateWorkload>>)
              /\ StatusWritten(ret[t]) => SaysError(ret[t].after.conds, <<errLocateWorkload>>)
              /\ ret[t].result = [RequeueAfter |-> oamReconcileWait]

C2_Witness ==
    \E t \in Finished :
        /\ WorkloadFetched(ret[t]) /\ StatusWritten(ret[t])
        /\ ret[t].spec.workloadRef.uid \in UIDs
        /\ ret[t].spec.workloadRef.uid # workloads[ret[t].spec.workloadRef.name].uid
        /\ \E d \in DOMAIN deployments : deployments[d] = NewDeployment(<<>>)

\* C3: an invocation whose trait is not found returns the empty result and a
\* nil error after that one read: no status update, no patch, no further call.
C3_DeletedDeclaration ==
    \A t \in Finished :
        ret[t].calls[1].err = ErrNotFound =>
            /\ ret[t].result = [RequeueAfter |-> 0]
            /\ ret[t].err = Nil
            /\ ret[t].calls = <<Call("Get", t, ErrNotFound)>>

C3_Witness ==
    \E t \in Finished :
        /\ ret[t].calls[1].err = ErrNotFound
        /\ t \notin DOMAIN traits
        /\ t \notin queue

\* The workload's Deployment entries, none of which could be fetched: the
\* named deployment is not in the store or its Get failed.
NoneFetchable(r) ==
    LET res == workloads[r.spec.workloadRef.name].resources
    IN  \A i \in 1..Len(res) :
            res[i].kind = KindDeployment =>
                \/ res[i].name \notin DOMAIN r.after.deps
                \/ \E j \in CallsOf(r, "Get") :
                      r.calls[j].obj = res[i].name /\ r.calls[j].err # Nil

\* C4: when no Deployment entry of the fetched workload can be fetched (the
\* empty list included), the invocation sends no patch, submits the error
\* condition "cannot find deployment" and returns RequeueAfter the fixed delay.
C4_MissingTarget ==
    \A t \in Finished :
        /\ WorkloadFetched(ret[t])
        /\ ~StaleReference(ret[t].spec.workloadRef)
        /\ NoneFetchable(ret[t])
        => /\ CallsOf(ret[t], "Patch") = {}
           /\ SaysError(ret[t].conds, <<errLocateDeployment>>)
           /\ StatusWritten(ret[t]) => SaysError(ret[t].after.conds, <<errLocateDeployment>>)
           /\ ret[t].result = [RequeueAfter |-> oamReconcileWait]

\* The list is empty, or holds a Deployment entry whose fetch came back NotFound.
C4_Witness ==
    \E t \in Finished :
        /\ WorkloadFetched(ret[t])
        /\ ~StaleReference(ret[t].spec.workloadRef)
        /\ NoneFetchable(ret[t])
        /\ StatusWritten(ret[t])
        /\ \E j \in CallsOf(ret[t], "Get") : j > 2 /\ ret[t].calls[j].err = ErrNotFound

C4_WitnessEmpty ==
    \E t \in Finished :
        /\ WorkloadFetched(ret[t])
        /\ ~StaleReference(ret[t].spec.workloadRef)
        /\ workloads[ret[t].spec.workloadRef.name].resources = <<>>
        /\ StatusWritten(ret[t])

\* C5 as claimed: every return follows exactly one status update, except the
\* return after a trait Get that came back NotFound, which follows none.
C5_OneWriteUnlessNotFound ==
    \A t \in Finished :
        Cardinality(CallsOf(ret[t], "UpdateStatus")) =
            IF ret[t].calls[1].err = ErrNotFound THEN 0 ELSE 1

\* C5 as amended: every return follows exactly one status update, the last
\* call of the invocation, except the return after a failed trait Get
\* (NotFound or any other error), which follows none.
C5_OneWriteUnlessFetchFailed ==
    \A t \in Finished :
        IF TraitFetched(ret[t])
        THEN CallsOf(ret[t], "UpdateStatus") = {Len(ret[t].calls)}
        ELSE CallsOf(ret[t], "UpdateStatus") = {}

C5_Witness ==
    \E t \in Finished :
        /\ ret[t].prior # NoObj
        /\ ~TraitFetched(ret[t]) /\ ret[t].calls[1].err = ErrInternal
        /\ Cardinality(CallsOf(ret[t].prior, "UpdateStatus")) = 1

\* The deployment an invocation patched.
TargetOf(r) == r.calls[CHOOSE i \in CallsOf(r, "Patch") : TRUE].obj

\* The references of refs that refer to trait t.
RefsTo(t, refs) == {i \in 1..Len(refs) : referSameObject(ControllerRef(t), refs[i])}

\* Two invocations in a row for one identity, both through to ReportSuccess
\* with their status written, nobody else writing the store from the return
\* of the first to the return of the second.
Rerun(r) ==
    /\ r.prior # NoObj
    /\ r.quiet
    /\ PatchApplied(r.prior) /\ StatusWritten(r.prior)
    /\ PatchApplied(r) /\ StatusWritten(r)

\* C6: when an identity is reconciled twice with no change by anyone else in
\* between, the second run leaves the deployment's replica count and the
\* trait's Success condition exactly as the first run left them.  (Stated for
\* two runs that made the same client calls with the same outcomes.)
C6_Idempotent ==
    \A t \in Finished :
        Rerun(ret[t]) /\ ret[t].calls = ret[t].prior.calls =>
            /\ ret[t].after.deps[TargetOf(ret[t])].replicas
                  = ret[t].prior.after.deps[TargetOf(ret[t])].replicas
            /\ ret[t].after.conds = ret[t].prior.after.conds

\* C7: no deployment ever carries two references to the same trait; after an
\* invocation that patched, the target carries the trait's controller
\* reference exactly once; and a rerun leaves the target's references as the
\* run before left them.
C7_OwnerExactlyOnce ==
    /\ \A d \in DOMAIN deployments, t \in Traits :
          Cardinality(RefsTo(t, deployments[d].ownerReferences)) <= 1
    /\ \A t \in Finished :
          PatchApplied(ret[t]) =>
              LET refs == ret[t].after.deps[TargetOf(ret[t])].ownerReferences
              IN  /\ Cardinality(RefsTo(t, refs)) = 1
                  /\ \A i \in RefsTo(t, refs) : refs[i] = ControllerRef(t)
    /\ \A t \in Finished :
          Rerun(ret[t]) /\ TargetOf(ret[t]) = TargetOf(ret[t].prior) =>
              ret[t].after.deps[TargetOf(ret[t])].ownerReferences
                  = ret[t].prior.after.deps[TargetOf(ret[t])].ownerReferences

C7_Witness ==
    \E t \in Finished :
        /\ Rerun(ret[t])
        /\ TargetOf(ret[t]) = TargetOf(ret[t].prior)
        /\ Cardinality(RefsTo(t, deployments[TargetOf(ret[t])].ownerReferences)) = 1

\* The step in which the store applies the patch of t's invocation.
PatchStep(t) ==
    /\ pc[t] = "patch"
    /\ Len(calls'[t]) = Len(calls[t]) + 1
    /\ calls'[t][Len(calls'[t])] = Call("Patch", target[t], Nil)

\* C8: the patch leaves the image (a field that is neither the replica count
\* nor the owner references) as the store held it just before the patch,
\* whatever the invocation had fetched.
C8_MergeSafety ==
    [][\A t \in Traits :
          PatchStep(t) =>
              deployments'[target[t]].image = deployments[target[t]].image]_vars

\* The patch was applied to a deployment whose image another actor had
\* changed since the invocation fetched it, and that image is still there.
C8_Witness ==
    \E t \in Traits :
        /\ pc[t] = "updateStatus"
        /\ pending[t].before # NoObj
        /\ pending[t].before.image # scaleDeploy[t].image
        /\ deployments[target[t]].image = pending[t].before.image

\* C9: a return after the trait was fetched and no patch was applied (the
\* workload is missing, its UID does not match, no deployment was fetched,
\* ownership or the patch failed) carries RequeueAfter = oamReconcileWait; the
\* return after an applied patch and the return after NotFound carry no
\* RequeueAfter; and whenever the status update succeeded the error is nil.
C9_RetryPolicy ==
    \A t \in Finished :
        /\ ret[t].calls[1].err = ErrNotFound =>
              ret[t].result = [RequeueAfter |-> 0] /\ ret[t].err = Nil
        /\ PatchApplied(ret[t]) => ret[t].result = [RequeueAfter |-> 0]
        /\ TraitFetched(ret[t]) /\ ~PatchApplied(ret[t]) =>
              ret[t].result = [RequeueAfter |-> oamReconcileWait]
        /\ StatusWritten(ret[t]) => ret[t].err = Nil

\* A failed patch answered with a requeue and a nil error, then a success.
C9_Witness ==
    \E t \in Finished :
        /\ ret[t].prior # NoObj
        /\ \E i \in CallsOf(ret[t].prior, "Patch") : ret[t].prior.calls[i].err # Nil
        /\ StatusWritten(ret[t].prior)
        /\ PatchApplied(ret[t]) /\ StatusWritten(ret[t])

\* C10: the error an invocation returns after its status update is that
\* update's error wrapped, non-nil exactly when the update failed.
C10_StatusErrorReturned ==
    \A t \in Finished :
        \A i \in CallsOf(ret[t], "UpdateStatus") :
            /\ ret[t].calls[i].err # Nil =>
                  ret[t].err = <<errUpdateStatus>> \o ret[t].calls[i].err
            /\ ret[t].calls[i].err = Nil => ret[t].err = Nil

\* The status update met a concurrent writer and the conflict was returned.
C10_Witness ==
    \E t \in Finished :
        /\ \E i \in CallsOf(ret[t], "UpdateStatus") : ret[t].calls[i].err = ErrConflict
        /\ ret[t].err # Nil
        /\ t \in queue

\* Nothing is running and nothing is queued: the reconciler has come to rest.
AtRest == queue = {} /\ \A t \in Traits : pc[t] = "idle"

\* The trait's reference names the stored workload with its UID, and the
\* workload lists a Deployment that is in the store.
Reconcilable(t) ==
    /\ t \in DOMAIN traits
    /\ traits[t].workloadRef.name \in DOMAIN workloads
    /\ ~StaleReference(traits[t].workloadRef)
    /\ LET res == workloads[traits[t].workloadRef.name].resources
       IN  \E i \in Candidates(res, 1) : res[i].name \in DOMAIN deployments

\* C11: when the reconciler has come to rest (every trigger delivered, nothing
\* queued) for a trait whose reference is valid and whose workload lists a
\* fetchable deployment, the last invocation's calls having all succeeded,
\* the trait's condition is Success and the target deployment's replica count
\* equals the trait's replicaCount.
C11_SelfHealing ==
    \A t \in Finished :
        /\ AtRest
        /\ Reconcilable(t)
        /\ \A i \in 1..Len(ret[t].calls) : ret[t].calls[i].err = Nil
        => /\ SaysSuccess(traits[t].conditions)
           /\ PatchApplied(ret[t])
           /\ deployments[TargetOf(ret[t])].replicas = traits[t].replicaCount

\* The part of C11 that does not rest on the replica count.
C11_ConditionHealed ==
    \A t \in Finished :
        /\ AtRest
        /\ Reconcilable(t)
        /\ \A i \in 1..Len(ret[t].calls) : ret[t].calls[i].err = Nil
        => /\ SaysSuccess(traits[t].conditions)
           /\ PatchApplied(ret[t])

\* C12: an invocation sends a patch only when exactly one entry of the
\* workload's resources is of kind Deployment.
C12_UniqueTarget ==
    \A t \in Finished :
        /\ WorkloadFetched(ret[t])
        /\ CallsOf(ret[t], "Patch") # {}
        => Cardinality(Candidates(workloads[ret[t].spec.workloadRef.name].resources, 1)) = 1

\* Another controller already owns the object carrying refs.
OwnedByOther(t, refs) ==
    \E i \in 1..Len(refs) :
        refs[i].controller /\ ~referSameObject(ControllerRef(t), refs[i])

\* The conditions hold the one Synced condition, in error, its message
\* starting with msg.
SaysErrorOf(conds, msg) ==
    /\ Len(conds) = 1
    /\ conds[1].type = "Synced" /\ conds[1].status = "False"
    /\ conds[1].reason = "ReconcileError"
    /\ Len(conds[1].message) >= 2 /\ conds[1].message[1] = msg

\* The invocation of t fetched a deployment and then failed to set its
\* controller reference, or its patch was refused.
OwnershipFailed(t) ==
    /\ pc[t] = "updateStatus" /\ scaleDeploy[t] # NoObj
    /\ OwnedByOther(t, scaleDeploy[t].ownerReferences)

PatchFailed(t) ==
    /\ pc[t] = "updateStatus" /\ scaleDeploy[t] # NoObj
    /\ calls[t][Len(calls[t])].op = "Patch" /\ calls[t][Len(calls[t])].err # Nil

\* The step in which t's invocation leaves line 108 or line 115 by an error.
FailedPatchStep(t) ==
    /\ pc[t] = "patch" /\ pc'[t] = "updateStatus"
    /\ ~PatchStep(t)

\* C14: when setting the controller reference or the patch fails, the step
\* leaves every stored deployment as it was, no patch of the invocation was
\* applied, the condition set is the error CannotScaleDeployment, and the
\* result to return (and returned) is RequeueAfter the fixed delay.
C14_FailedScale ==
    /\ [](\A t \in Traits :
            /\ OwnershipFailed(t) =>
                  /\ CallsOf([calls |-> calls[t]], "Patch") = {}
                  /\ SaysErrorOf(manualScaler[t].conditions, errUpdateDeployment)
                  /\ pending[t].result = [RequeueAfter |-> oamReconcileWait]
            /\ PatchFailed(t) =>
                  /\ ~PatchApplied([calls |-> calls[t]])
                  /\ SaysErrorOf(manualScaler[t].conditions, errScaleDeployment)
                  /\ pending[t].result = [RequeueAfter |-> oamReconcileWait])
    /\ [](\A t \in Finished :
            (\E i \in CallsOf(ret[t], "Patch") : ret[t].calls[i].err # Nil) =>
                /\ ret[t].result = [RequeueAfter |-> oamReconcileWait]
                /\ SaysErrorOf(ret[t].conds, errScaleDeployment)
                /\ StatusWritten(ret[t]) =>
                      SaysErrorOf(ret[t].after.conds, errScaleDeployment))
    /\ [][\A t \in Traits : FailedPatchStep(t) => deployments' = deployments]_vars

\* Both failures happened: a deployment another controller owns was left
\* alone, and a refused patch was reported and requeued.
C14_Witness ==
    /\ \E t \in Traits : OwnershipFailed(t) /\ deployments[target[t]] = scaleDeploy[t]
    /\ \E t \in Finished :
          /\ \E i \in CallsOf(ret[t], "Patch") : ret[t].calls[i].err # Nil
          /\ StatusWritten(ret[t])

\* The j-th smallest element of the set of numbers S.
Nth(S, j) == CHOOSE x \in S : Cardinality({y \in S : y < x}) = j - 1

\* The Get calls of an invocation after those of the trait and the workload.
DeploymentGets(r) == {i \in CallsOf(r, "Get") : i > 2}

\* C15: the deployment Gets of an invocation follow the workload's Deployment
\* entries in list order, other kinds being skipped; every Get but the last
\* failed and the scan goes on after a failure; the first Get that succeeds
\* ends the scan and names the target of the patch; and the condition the
\* invocation ends with is that of its outcome (Success, or "cannot find
\* deployment" unwrapped), never that of a candidate's failed fetch.
C15_ResolveTarget ==
    \A t \in Finished :
        WorkloadFetched(ret[t]) /\ ~StaleReference(ret[t].spec.workloadRef) =>
            LET r    == ret[t]
                res  == workloads[r.spec.workloadRef.name].resources
                cand == Candidates(res, 1)
                n    == Cardinality(DeploymentGets(r))
            IN  /\ DeploymentGets(r) = 3..(2 + n)
                /\ n <= Cardinality(cand)
                /\ \A j \in 1..n : r.calls[2 + j].obj = res[Nth(cand, j)].name
                /\ \A j \in 1..(n - 1) : r.calls[2 + j].err # Nil
                /\ n < Cardinality(cand) => r.calls[2 + n].err = Nil
                /\ \A i \in CallsOf(r, "Patch") :
                      /\ i = 3 + n
                      /\ r.calls[2 + n].err = Nil
                      /\ r.calls[i].obj = r.calls[2 + n].obj
                /\ PatchApplied(r) => SaysSuccess(r.conds)
                /\ (n = 0 \/ r.calls[2 + n].err # Nil) =>
                      SaysError(r.conds, <<errLocateDeployment>>)
                /\ ~SaysErrorOf(r.conds, errLocateDeployment)

\* With two Deployment entries listed: one run passed over the first, whose
\* fetch failed, and patched the second; the next run fetched the first and
\* never fetched the second.
C15_Witness ==
    \E t \in Finished :
        LET r   == ret[t]
            res == workloads[r.spec.workloadRef.name].resources
        IN  /\ r.prior # NoObj
            /\ WorkloadFetched(r) /\ WorkloadFetched(r.prior)
            /\ Cardinality(Candidates(res, 1)) = 2
            /\ r.prior.calls[3].err # Nil
            /\ PatchApplied(r.prior) /\ StatusWritten(r.prior)
            /\ TargetOf(r.prior) = res[2].name
            /\ SaysSuccess(r.prior.after.conds)
            /\ DeploymentGets(r) = {3}
            /\ PatchApplied(r) /\ TargetOf(r) = res[1].name

\* A step of some Reconcile invocation (a delivery, a client call, a return).
EngineStep == runs' # runs \/ pc' # pc \/ calls' # calls

\* C16: a step of Reconcile leaves the workloads, the sets of stored traits
\* and deployments, and every trait's replicaCount and workloadRef as they
\* were; it changes a deployment only as the patch step of an invocation, on
\* that invocation's target and in its owner references or replica count;
\* it changes a trait only as the status update of that trait's invocation;
\* and an invocation makes at most one Patch and one UpdateStatus call.
C16_Frame ==
    /\ [](\A t \in Traits :
            /\ Cardinality(CallsOf([calls |-> calls[t]], "Patch")) <= 1
            /\ Cardinality(CallsOf([calls |-> calls[t]], "UpdateStatus")) <= 1
            /\ t \in Finished =>
                  /\ Cardinality(CallsOf(ret[t], "Patch")) <= 1
                  /\ Cardinality(CallsOf(ret[t], "UpdateStatus")) <= 1)
    /\ [][EngineStep =>
            /\ workloads' = workloads
            /\ DOMAIN traits' = DOMAIN traits
            /\ DOMAIN deployments' = DOMAIN deployments
            /\ \A t \in DOMAIN traits :
                  /\ traits'[t].replicaCount = traits[t].replicaCount
                  /\ traits'[t].workloadRef = traits[t].workloadRef
                  /\ traits'[t] # traits[t] =>
                        /\ pc[t] = "updateStatus" /\ pc'[t] = "idle"
                        /\ ret'[t].calls[Len(ret'[t].calls)] = Call("UpdateStatus", t, Nil)
            /\ \A d \in DOMAIN deployments :
                  /\ deployments'[d].image = deployments[d].image
                  /\ deployments'[d] # deployments[d] =>
                        \E t \in Traits : PatchStep(t) /\ target[t] = d]_vars

\* An invocation made both its writes, on a deployment whose image another
\* actor had set, and on a trait whose replicaCount the user had changed.
C16_Witness ==
    \E t \in Finished :
        /\ PatchApplied(ret[t]) /\ StatusWritten(ret[t])
        /\ t \in DOMAIN traits
        /\ SaysSuccess(traits[t].conditions)
        /\ traits[t].replicaCount # 3
        /\ deployments[TargetOf(ret[t])].ownerReferences = <<ControllerRef(t)>>
        /\ deployments[TargetOf(ret[t])].image # "img1"

\* C17: when the stored deployment differs in some field from what the
\* invocation fetched (another actor wrote it in between), the patch step
\* leaves that field as the other actor wrote it.  (The patch is never
\* refused for staleness: MergeFrom sends no resourceVersion.)
C17_NoLostUpdate ==
    [][\A t \in Traits :
          PatchStep(t) =>
              \A f \in Fields :
                  deployments[target[t]][f] # scaleDeploy[t][f] =>
                      deployments'[target[t]][f] = deployments[target[t]][f]]_vars

\* The step in which t's invocation returns after its status update.
ReturnStep(t) == pc[t] = "updateStatus" /\ pc'[t] = "idle"

\* The invocation that returned r repeated the one before it: the same calls
\* with the same outcomes, nobody else having written the store in between,
\* and the deployments left as the one before left them.
Repeated(r) ==
    /\ Rerun(r)
    /\ r.calls = r.prior.calls
    /\ r.after.deps = r.prior.after.deps

\* C19: an invocation that repeats a successful one, no other actor having
\* written the store, is the last: its return writes nothing to the store and
\* leaves its identity off the work queue.  (A repeated invocation that is
\* queued again starts from the same store and repeats without end.)
C19_Quiescence ==
    [][\A t \in Traits :
          ReturnStep(t) /\ Repeated(ret'[t]) =>
              /\ traits' = traits
              /\ t \notin queue']_vars

\* C19 for invocations none of whose Gets failed.
C19_QuiescenceAllFetched ==
    [][\A t \in Traits :
          /\ ReturnStep(t) /\ Repeated(ret'[t])
          /\ \A i \in CallsOf(ret'[t], "Get") : ret'[t].calls[i].err = Nil
          => /\ traits' = traits
             /\ t \notin queue']_vars

\* C13: a step never takes from a deployment a reference to a trait that the
\* deployment carried before the step.
C13_OwnerStable ==
    [][\A d \in DOMAIN deployments, t \in Traits :
          /\ d \in DOMAIN deployments'
          /\ RefsTo(t, deployments[d].ownerReferences) # {}
          => RefsTo(t, deployments'[d].ownerReferences) # {}]_vars

\* The controller references among refs.
Controllers(refs) == {i \in 1..Len(refs) : refs[i].controller}

\* The first sentence of C18: no deployment carries two controller references.
C18_OneControllerRef ==
    \A d \in DOMAIN deployments :
        Cardinality(Controllers(deployments[d].ownerReferences)) <= 1

\* C18: no deployment carries two controller references, and of two traits
\* that resolve to the same deployment at most one has a patch applied to it:
\* the other's invocations send no patch.
C18_SingleController ==
    /\ C18_OneControllerRef
    /\ \A t, u \in Finished :
          /\ t # u
          /\ PatchApplied(ret[t]) /\ PatchApplied(ret[u])
          => TargetOf(ret[t]) # TargetOf(ret[u])

====
